---- MODULE Spec2Model ----
(***************************************************************************)
(* Trade matcher: the wash-sale cost-basis pre-pass, Trade construction    *)
(* and the greedy buy/sell matching of src/orders.py (terminal entry       *)
(* point, main) and src/app.py (web entry point, process).                 *)
(*                                                                         *)
(* Dates are day numbers, so (a - b).days is a - b.  Amounts are floats in *)
(* the source; the input records drawn here have a total_amount that is an *)
(* exact multiple of qty, so every price, adjustment and profit is an      *)
(* integer and float arithmetic on them is exact.                          *)
(***************************************************************************)
EXTENDS Integers, Sequences, FiniteSets, TLC

\* ---------------------------------------------------------------- bounds
MaxRecords == 3
\* Longest Match list handed to an objective function on its own.
MaxMatches == 3
\* Longest input of the runs that accept two Matches (two Buys, two Sells).
MaxOrderRecords == 4
\* Most calls of adjust_match made after one matching run.
MaxAdjusts == 2

\* ------------------------------------------------------ program constants
WashWindowDays == 30
ShortTermDays == 365

\* ------------------------------------------------------------ input sets
Tickers == {"X", "Y"}
Dates == {0, 30, 395}
OrderTypes == {"buy", "sell"}
UnitPrices == {1, 2}
Entries == {"orders", "app"}

NoKey == "absent"
Unset == "unset"
ValidKeys == {"1", "2", "3", "4", "5", "6", "7"}
Keys == ValidKeys \cup {"9", "", NoKey}

\* One parsed CSV row (the record dict of load_orders).
Record(d, ty, tk, u, q) ==
    [date |-> d, type |-> ty, ticker |-> tk,
     total_amount |-> IF q = 0 THEN u ELSE u * q, qty |-> q]

RecordsOver(Qs, Tks) ==
    {Record(d, ty, tk, u, q) : d \in Dates, ty \in OrderTypes, tk \in Tks,
                               u \in UnitPrices, q \in Qs}

SeqsUpTo(S, n) == UNION {[1..k -> S] : k \in 0..n}

\* ------------------------------------------------------------ arithmetic
Abs(x) == IF x < 0 THEN -x ELSE x
Min(a, b) == IF a <= b THEN a ELSE b

\* Python's a / b for b # 0 on the exact multiples the inputs are made of.
TrueDiv(a, b) == IF b > 0 THEN a \div b ELSE -(a \div (-b))

\* total / qty raises ZeroDivisionError in orders.py; app.py guards it.
DivFails(e, qty) == e = "orders" /\ qty = 0
UnitPrice(total, qty) == IF qty = 0 THEN 0 ELSE TrueDiv(total, qty)

\* ------------------------------------------------- apply_wash_sale (4.1)
NewLot(r) ==
    [date |-> r.date, ticker |-> r.ticker, qty |-> r.qty,
     price |-> UnitPrice(r.total_amount, r.qty),
     orig_total |-> r.total_amount, adjusted |-> FALSE]

\* Eligible without the lower end of the window.
Eligible_NoLower(buy, date) ==
    /\ date - buy.date <= WashWindowDays
    /\ ~buy.adjusted

Eligible(buy, date) ==
    /\ 0 < date - buy.date
    /\ date - buy.date <= WashWindowDays
    /\ ~buy.adjusted

\* AdjustedLot without the line that sets the adjusted flag.
AdjustedLot_NoFlag(buy, adjustment) ==
    [buy EXCEPT !.price = buy.price + adjustment,
                !.orig_total = buy.orig_total + adjustment * buy.qty]

AdjustedLot(buy, adjustment) ==
    [buy EXCEPT !.price = buy.price + adjustment,
                !.orig_total = buy.orig_total + adjustment * buy.qty,
                !.adjusted = TRUE]

WashSaleEvent(buy, ticker, date, adjustment) ==
    [ticker |-> ticker, sell_date |-> date, buy_date |-> buy.date,
     adjustment_per_unit |-> adjustment, qty |-> buy.qty,
     total_adjustment |-> adjustment * buy.qty,
     old_price |-> buy.price, new_price |-> buy.price + adjustment]

\* ScanLots with the break one level out: the first eligible lot ends the scan
\* whether or not it was adjusted.
RECURSIVE ScanLots_BreakAlways(_, _, _, _, _)
ScanLots_BreakAlways(lots, k, ticker, date, price) ==
    IF k > Len(lots)
    THEN [lots |-> lots, events |-> <<>>]
    ELSE LET buy == lots[k]
             loss_per_unit == buy.price - price
         IN  IF Eligible(buy, date)
             THEN IF loss_per_unit > 0
                  THEN [lots |-> [lots EXCEPT ![k] = AdjustedLot(buy, loss_per_unit)],
                        events |-> <<WashSaleEvent(buy, ticker, date, loss_per_unit)>>]
                  ELSE [lots |-> lots, events |-> <<>>]
             ELSE ScanLots_BreakAlways(lots, k + 1, ticker, date, price)

\* ScanLots without the break: the scan goes on after an adjustment.
RECURSIVE ScanLots_NoBreak(_, _, _, _, _)
ScanLots_NoBreak(lots, k, ticker, date, price) ==
    IF k > Len(lots)
    THEN [lots |-> lots, events |-> <<>>]
    ELSE LET buy == lots[k]
             loss_per_unit == buy.price - price
         IN  IF Eligible(buy, date) /\ loss_per_unit > 0
             THEN LET rest == ScanLots_NoBreak(
                                  [lots EXCEPT ![k] = AdjustedLot(buy, loss_per_unit)],
                                  k + 1, ticker, date, price)
                  IN  [lots |-> rest.lots,
                       events |-> <<WashSaleEvent(buy, ticker, date, loss_per_unit)>>
                                  \o rest.events]
             ELSE ScanLots_NoBreak(lots, k + 1, ticker, date, price)

\* The scan of one ticker's lots for one sell (the inner for loop): a lot that
\* is eligible and has a positive loss is adjusted and ends the scan (break);
\* any other lot, eligible or not, is passed over and the scan goes on.
RECURSIVE ScanLots(_, _, _, _, _)
ScanLots(lots, k, ticker, date, price) ==
    IF k > Len(lots)
    THEN [lots |-> lots, events |-> <<>>]
    ELSE LET buy == lots[k]
             loss_per_unit == buy.price - price
         IN  IF Eligible(buy, date)
             THEN IF loss_per_unit > 0
                  THEN [lots |-> [lots EXCEPT ![k] = AdjustedLot(buy, loss_per_unit)],
                        events |-> <<WashSaleEvent(buy, ticker, date, loss_per_unit)>>]
                  ELSE ScanLots(lots, k + 1, ticker, date, price)
             ELSE ScanLots(lots, k + 1, ticker, date, price)

\* One iteration of the loop over records; st = [ticker_buys, wash_sales].
WashRecordStep(st, r) ==
    IF r.type = "buy"
    THEN [st EXCEPT !.ticker_buys[r.ticker] = Append(@, NewLot(r))]
    ELSE IF r.type = "sell"
    THEN LET scan == ScanLots(st.ticker_buys[r.ticker], 1, r.ticker, r.date,
                              UnitPrice(r.total_amount, r.qty))
         IN  [ticker_buys |-> [st.ticker_buys EXCEPT ![r.ticker] = scan.lots],
              wash_sales |-> st.wash_sales \o scan.events]
    ELSE st

EmptyWash == [ticker_buys |-> [t \in Tickers |-> <<>>], wash_sales |-> <<>>]

RECURSIVE WashPrefix(_, _)
WashPrefix(recs, n) ==
    IF n = 0 THEN EmptyWash ELSE WashRecordStep(WashPrefix(recs, n - 1), recs[n])

apply_wash_sale(recs) == WashPrefix(recs, Len(recs))

LoadFails(e, recs) == \E k \in 1..Len(recs) : DivFails(e, recs[k].qty)

\* ------------------------------------------------------ Trade, load_orders
Trade(r) ==
    [date |-> r.date, order_type |-> r.type, ticker |-> r.ticker,
     total_amount |-> r.total_amount, qty |-> r.qty,
     price |-> UnitPrice(r.total_amount, r.qty),
     original_qty |-> r.qty, matched_qty |-> 0]

\* The inner loop "for ws in wash_sales" of load_orders on one fresh Trade:
\* every event with the Trade's ticker and date overwrites price and
\* total_amount, so the last such event is the one that stays.
RECURSIVE ApplyEvents(_, _, _)
ApplyEvents(trade, ws, n) ==
    IF n = 0 THEN trade
    ELSE LET t == ApplyEvents(trade, ws, n - 1)
         IN  IF /\ t.order_type = "buy"
                /\ t.ticker = ws[n].ticker
                /\ t.date = ws[n].buy_date
             THEN [t EXCEPT !.price = ws[n].new_price,
                            !.total_amount = ws[n].new_price * t.qty]
             ELSE t

BuildTrades(recs, ws) ==
    [k \in 1..Len(recs) |-> ApplyEvents(Trade(recs[k]), ws, Len(ws))]

load_orders(recs) == BuildTrades(recs, apply_wash_sale(recs).wash_sales)

\* ------------------------------------------------------------------ Match
\* A Match refers to its two Trades by their index in orders.
\* check_wash_sale with the window closed at 0 days.
check_wash_sale_SameDay(buy, sell) ==
    /\ sell.date - buy.date <= WashWindowDays
    /\ sell.date - buy.date >= 0
    /\ sell.price < buy.price

check_wash_sale(buy, sell) ==
    /\ sell.date - buy.date <= WashWindowDays
    /\ sell.date - buy.date > 0
    /\ sell.price < buy.price

Match(ords, b, s, qty) ==
    [buy |-> b, sell |-> s, qty |-> qty,
     profit |-> (ords[s].price - ords[b].price) * qty,
     holding_period_days |-> Abs(ords[s].date - ords[b].date),
     is_wash_sale |-> check_wash_sale(ords[b], ords[s])]

is_short_term(m) == m.holding_period_days <= ShortTermDays
is_long_term(m) == m.holding_period_days > ShortTermDays

\* ------------------------------------------------------- objectives (4.3)
RECURSIVE SumProfit(_, _, _)
SumProfit(ms, n, terms) ==
    IF n = 0 THEN 0
    ELSE SumProfit(ms, n - 1, terms)
         + (IF (is_short_term(ms[n]) /\ "short" \in terms)
               \/ (is_long_term(ms[n]) /\ "long" \in terms)
            THEN ms[n].profit ELSE 0)

objective_profit(ms) == SumProfit(ms, Len(ms), {"short", "long"})
objective_loss(ms) == -SumProfit(ms, Len(ms), {"short", "long"})
objective_short_term_profit(ms) == SumProfit(ms, Len(ms), {"short"})
objective_long_term_profit(ms) == SumProfit(ms, Len(ms), {"long"})
objective_short_term_loss(ms) == -SumProfit(ms, Len(ms), {"short"})
objective_long_term_loss(ms) == -SumProfit(ms, Len(ms), {"long"})
\* objective_minimal_loss without abs().
objective_minimal_loss_NoAbs(ms) == Min(0, SumProfit(ms, Len(ms), {"short", "long"}))

objective_minimal_loss(ms) == Abs(Min(0, SumProfit(ms, Len(ms), {"short", "long"})))

strategy_map(key, ms) ==
    CASE key = "1" -> objective_profit(ms)
      [] key = "2" -> objective_loss(ms)
      [] key = "3" -> objective_short_term_profit(ms)
      [] key = "4" -> objective_long_term_profit(ms)
      [] key = "5" -> objective_short_term_loss(ms)
      [] key = "6" -> objective_long_term_loss(ms)
      [] key = "7" -> objective_minimal_loss(ms)

\* main: a key that is not in strategy_map becomes "1".
ResolveMain(key) == IF key \notin ValidKeys THEN "1" ELSE key

\* ResolveProcess falling back to "2".
ResolveProcess_Loss(key) ==
    LET strategy == IF key = NoKey \/ key = "" THEN "2" ELSE key
    IN  IF strategy \notin ValidKeys THEN "2" ELSE strategy

\* process: an absent or empty key becomes "1" (strategy or "1"), then a key
\* that is not in strategy_map becomes "1".
ResolveProcess(key) ==
    LET strategy == IF key = NoKey \/ key = "" THEN "1" ELSE key
    IN  IF strategy \notin ValidKeys THEN "1" ELSE strategy

\* ------------------------------------------------- generate_matches (4.2)
\* list.sort / sorted: the indices of keys in ascending key order, equal keys
\* in their original order.
RECURSIVE StableSort(_, _)
StableSort(keys, n) ==
    IF n = 0 THEN <<>>
    ELSE LET prev == StableSort(keys, n - 1)
             pos == Cardinality({j \in 1..(n - 1) : keys[prev[j]] <= keys[n]})
         IN  SubSeq(prev, 1, pos) \o <<n>> \o SubSeq(prev, pos + 1, n - 1)

IndicesOf(ords, side) ==
    LET Is(k) == ords[k].order_type = side
    IN  SelectSeq([k \in 1..Len(ords) |-> k], Is)

SortedByDate(ords, idx) ==
    LET perm == StableSort([j \in 1..Len(idx) |-> ords[idx[j]].date], Len(idx))
    IN  [j \in 1..Len(idx) |-> idx[perm[j]]]

\* Matchable without the date test.
Matchable_NoDate(ords, b, s) ==
    /\ ords[s].ticker = ords[b].ticker
    /\ ords[s].qty > 0
    /\ ords[b].qty > 0

\* Matchable with the buy strictly before the sell.
Matchable_StrictDate(ords, b, s) ==
    /\ ords[s].ticker = ords[b].ticker
    /\ ords[s].qty > 0
    /\ ords[b].qty > 0
    /\ ords[b].date < ords[s].date

\* Matchable without the two quantity tests.
Matchable_NoQty(ords, b, s) ==
    /\ ords[s].ticker = ords[b].ticker
    /\ ords[b].date <= ords[s].date

Matchable(ords, b, s) ==
    /\ ords[s].ticker = ords[b].ticker
    /\ ords[s].qty > 0
    /\ ords[b].qty > 0
    /\ ords[b].date <= ords[s].date

\* all_matches: sells outer, buys inner, both in ascending date order.
AllMatches(ords) ==
    LET buys == SortedByDate(ords, IndicesOf(ords, "buy"))
        sells == SortedByDate(ords, IndicesOf(ords, "sell"))
        nb == Len(buys)
        pairs == [p \in 1..(Len(sells) * nb) |->
                    [s |-> sells[((p - 1) \div nb) + 1], b |-> buys[((p - 1) % nb) + 1]]]
        Ok(pr) == Matchable(ords, pr.b, pr.s)
        kept == SelectSeq(pairs, Ok)
    IN  [j \in 1..Len(kept) |->
            Match(ords, kept[j].b, kept[j].s, Min(ords[kept[j].s].qty, ords[kept[j].b].qty))]

\* SortedByScore as a hard filter: under the term objectives a candidate of
\* the other term is dropped before the sort.
SortedByScore_OnTermOnly(cands, key) ==
    LET OnTerm(m) == /\ key \in {"3", "5"} => is_short_term(m)
                     /\ key \in {"4", "6"} => is_long_term(m)
        kept == SelectSeq(cands, OnTerm)
        perm == StableSort([j \in 1..Len(kept) |-> -strategy_map(key, <<kept[j]>>)],
                           Len(kept))
    IN  [j \in 1..Len(kept) |-> kept[perm[j]]]

\* SortedByScore on the score itself, lowest first.
SortedByScore_Ascending(cands, key) ==
    LET perm == StableSort([j \in 1..Len(cands) |-> strategy_map(key, <<cands[j]>>)],
                           Len(cands))
    IN  [j \in 1..Len(cands) |-> cands[perm[j]]]

SortedByScore(cands, key) ==
    LET perm == StableSort([j \in 1..Len(cands) |-> -strategy_map(key, <<cands[j]>>)],
                           Len(cands))
    IN  [j \in 1..Len(cands) |-> cands[perm[j]]]

\* SelectStep without the line sell.qty -= qty.
SelectStep_BuyOnly(acc, m) ==
    IF m.buy \in acc.used_buy \/ m.sell \in acc.used_sell
    THEN acc
    ELSE LET qty == Min(acc.orders[m.buy].qty, acc.orders[m.sell].qty)
         IN  [orders |-> [acc.orders EXCEPT ![m.buy].qty = @ - qty],
              result |-> Append(acc.result, Match(acc.orders, m.buy, m.sell, qty)),
              used_buy |-> acc.used_buy \cup {m.buy},
              used_sell |-> acc.used_sell \cup {m.sell}]

\* SelectStep that never marks a Trade as used.
SelectStep_NoUsed(acc, m) ==
    LET qty == Min(acc.orders[m.buy].qty, acc.orders[m.sell].qty)
    IN  [orders |-> [acc.orders EXCEPT ![m.buy].qty = @ - qty,
                                       ![m.sell].qty = @ - qty],
         result |-> Append(acc.result, Match(acc.orders, m.buy, m.sell, qty)),
         used_buy |-> acc.used_buy,
         used_sell |-> acc.used_sell]

\* SelectStep that takes the larger of the two remaining quantities.
SelectStep_MaxQty(acc, m) ==
    IF m.buy \in acc.used_buy \/ m.sell \in acc.used_sell
    THEN acc
    ELSE LET qty == -Min(-acc.orders[m.buy].qty, -acc.orders[m.sell].qty)
         IN  [orders |-> [acc.orders EXCEPT ![m.buy].qty = @ - qty,
                                            ![m.sell].qty = @ - qty],
              result |-> Append(acc.result, Match(acc.orders, m.buy, m.sell, qty)),
              used_buy |-> acc.used_buy \cup {m.buy},
              used_sell |-> acc.used_sell \cup {m.sell}]

\* One iteration of the selection loop; acc = [orders, result, used_buy, used_sell].
SelectStep(acc, m) ==
    IF m.buy \in acc.used_buy \/ m.sell \in acc.used_sell
    THEN acc
    ELSE LET qty == Min(acc.orders[m.buy].qty, acc.orders[m.sell].qty)
         IN  [orders |-> [acc.orders EXCEPT ![m.buy].qty = @ - qty,
                                            ![m.sell].qty = @ - qty],
              result |-> Append(acc.result, Match(acc.orders, m.buy, m.sell, qty)),
              used_buy |-> acc.used_buy \cup {m.buy},
              used_sell |-> acc.used_sell \cup {m.sell}]

RECURSIVE SelectPrefix(_, _, _)
SelectPrefix(ords, sorted, n) ==
    IF n = 0
    THEN [orders |-> ords, result |-> <<>>, used_buy |-> {}, used_sell |-> {}]
    ELSE SelectStep(SelectPrefix(ords, sorted, n - 1), sorted[n])

\* Returns the Match list (result) and the Trades as the run leaves them.
generate_matches(ords, key) ==
    LET sorted == SortedByScore(AllMatches(ords), key)
    IN  SelectPrefix(ords, sorted, Len(sorted))

\* ------------------------------------------------------------ adjust_match
\* What the user types at a prompt: text int() accepts, with its value, or not.
Typed(vals) == {[int |-> TRUE, val |-> v] : v \in vals} \cup {[int |-> FALSE, val |-> 0]}

\* seq[k] of a Python list of length n: k counts from 0, or from the end when
\* negative; any other k raises IndexError.
InRange(n, k) == -n <= k /\ k < n
PyIndex(n, k) == IF k >= 0 THEN k + 1 ELSE n + k + 1

\* The buys offered for a sell once the old match is rolled back.
AdjustCandidates(ords, s) ==
    LET Is(b) == /\ ords[b].order_type = "buy"
                 /\ ords[b].ticker = ords[s].ticker
                 /\ ords[b].qty > 0
                 /\ ords[b].date <= ords[s].date
    IN  SortedByDate(ords, SelectSeq([k \in 1..Len(ords) |-> k], Is))

\* adjust_match(matches, orders) with the three texts typed at its prompts;
\* the result is [orders, matches] as the call leaves them.
AdjustResult(ords, ms, choice_in, new_choice_in, new_qty_in) ==
    IF ~choice_in.int \/ ~InRange(Len(ms), choice_in.val - 1)
    THEN [orders |-> ords, matches |-> ms]
    ELSE LET at == PyIndex(Len(ms), choice_in.val - 1)
             m == ms[at]
             back == [ords EXCEPT ![m.buy].qty = @ + m.qty, ![m.sell].qty = @ + m.qty]
             candidates == AdjustCandidates(back, m.sell)
         IN  IF \/ ~new_choice_in.int
                \/ ~new_qty_in.int
                \/ ~InRange(Len(candidates), new_choice_in.val - 1)
             THEN [orders |-> back, matches |-> ms]
             ELSE LET new_buy == candidates[PyIndex(Len(candidates), new_choice_in.val - 1)]
                      new_qty == Min(Min(new_qty_in.val, back[m.sell].qty), back[new_buy].qty)
                  IN  [orders |-> [back EXCEPT ![new_buy].qty = @ - new_qty,
                                               ![m.sell].qty = @ - new_qty],
                       matches |-> [ms EXCEPT ![at] = Match(back, new_buy, m.sell, new_qty)]]

\* ------------------------------------------------------------------ state
VARIABLES
    records,        \* the parsed input rows, in file order
    entry,          \* "orders" (main) or "app" (process); Unset before a run
    pc,             \* "start", "wash", "build", "loaded", "done", "error"
    i,              \* apply_wash_sale: index of the next record
    ticker_buys,    \* apply_wash_sale: the open buy lots of each ticker
    wash_sales,     \* apply_wash_sale: the events emitted so far
    orders,         \* the Trades, in record order
    selected,       \* the strategy key as entered; Unset before it is read
    matches,        \* the Match list of the last run
    run,            \* number of completed runs of the pipeline
    first_matches,  \* the Match list of the run before the last one
    score,          \* the value an objective function returned for matches
    adjusts         \* number of adjust_match calls made so far

vars == <<records, entry, pc, i, ticker_buys, wash_sales, orders, selected,
          matches, run, first_matches, score, adjusts>>

\* The record sets the specifications draw their input from: each varies the
\* fields its claims turn on over a full product and adds a few records that
\* differ from it in one more field.
DateRecords ==
    RecordsOver({1}, {"X"}) \cup {Record(0, ty, "Y", 1, 1) : ty \in OrderTypes}
QtyRecords ==
    {Record(0, ty, "X", u, q) : ty \in OrderTypes, u \in UnitPrices, q \in {1, 2}}
    \cup {Record(0, ty, "X", 1, q) : ty \in OrderTypes, q \in {-1, 0}}
LoadRecords ==
    RecordsOver({2}, Tickers) \cup {Record(395, ty, "X", 1, 0) : ty \in OrderTypes}
RerunRecords ==
    {Record(d, ty, "X", u, 1) : d \in {0, 30}, ty \in OrderTypes, u \in UnitPrices}
    \cup {Record(0, ty, "X", 1, 2) : ty \in OrderTypes}

InitFrom(inputs, pc0, entries) ==
    /\ records \in inputs
    /\ entry \in entries
    /\ pc = pc0
    /\ i = 1
    /\ ticker_buys = EmptyWash.ticker_buys
    /\ wash_sales = <<>>
    /\ orders = <<>>
    /\ selected = Unset
    /\ matches = <<>>
    /\ run = 0
    /\ first_matches = <<>>
    /\ score = 0
    /\ adjusts = 0

AdjustRecords ==
    {Record(d, ty, "X", 1, q) : d \in {0, 30}, ty \in OrderTypes, q \in {1, 2}}
TermRecords == RecordsOver({1}, {"X"})
PairRecords ==
    {Record(d, ty, "X", 1, q) : d \in {0, 30}, ty \in OrderTypes, q \in {0, 1, 2}}
    \cup {Record(0, ty, "Y", 1, 1) : ty \in OrderTypes}
OrderRecords ==
    {Record(d, ty, "X", u, 1) : d \in {0, 395}, ty \in OrderTypes, u \in UnitPrices}

InitWith(recset, pc0, entries) == InitFrom(SeqsUpTo(recset, MaxRecords), pc0, entries)

Init == InitWith(DateRecords, "start", {Unset})
InitQty == InitWith(QtyRecords, "start", {Unset})
InitLoad == InitWith(LoadRecords, "wash", Entries)
InitRerun == InitWith(RerunRecords, "start", {Unset})
InitAdjust == InitWith(AdjustRecords, "start", {Unset})
InitTerm == InitWith(TermRecords, "start", {Unset})
InitPair == InitWith(PairRecords, "start", {Unset})
InitOrder == InitFrom(SeqsUpTo(OrderRecords, MaxOrderRecords), "start", {Unset})

\* ------------------------------------------- load_orders, record by record
\* One iteration of apply_wash_sale's loop over records.
WashRecord ==
    /\ pc = "wash"
    /\ i <= Len(records)
    /\ ~DivFails(entry, records[i].qty)
    /\ \E st \in {WashRecordStep([ticker_buys |-> ticker_buys, wash_sales |-> wash_sales],
                                   records[i])} :
           /\ ticker_buys' = st.ticker_buys
           /\ wash_sales' = st.wash_sales
    /\ i' = i + 1
    /\ UNCHANGED <<records, entry, pc, orders, selected, matches, run, first_matches,
                   score, adjusts>>

\* orders.py: price = total / qty raises ZeroDivisionError on a qty of 0.
WashFails ==
    /\ pc = "wash"
    /\ i <= Len(records)
    /\ DivFails(entry, records[i].qty)
    /\ pc' = "error"
    /\ UNCHANGED <<records, entry, i, ticker_buys, wash_sales, orders, selected,
                   matches, run, first_matches, score, adjusts>>

\* The loop of load_orders that builds one Trade per record.
BuildOrders ==
    /\ pc = "wash"
    /\ i > Len(records)
    /\ orders' = BuildTrades(records, wash_sales)
    /\ pc' = "loaded"
    /\ UNCHANGED <<records, entry, i, ticker_buys, wash_sales, selected, matches,
                   run, first_matches, score, adjusts>>

NextLoad == WashRecord \/ WashFails \/ BuildOrders

SpecLoad == InitLoad /\ [][NextLoad]_vars

\* ------------------------------------------------- the two entry points
\* RunPipeline that builds the Trades once and runs again on the ones it has.
RunPipeline_Reuse(e, key, strategy) ==
    /\ entry' = e
    /\ first_matches' = matches
    /\ i' = Len(records) + 1
    /\ UNCHANGED <<records, score, adjusts>>
    /\ IF LoadFails(e, records)
       THEN /\ pc' = "error"
            /\ UNCHANGED <<ticker_buys, wash_sales, orders, selected, matches, run>>
       ELSE \E washed \in {apply_wash_sale(records)} :
            \E gen \in {generate_matches(IF run = 0
                                          THEN BuildTrades(records, washed.wash_sales)
                                          ELSE orders, strategy)} :
                /\ pc' = "done"
                /\ ticker_buys' = washed.ticker_buys
                /\ wash_sales' = washed.wash_sales
                /\ selected' = key
                /\ orders' = gen.orders
                /\ matches' = gen.result
                /\ run' = run + 1

\* One whole run of the pipeline for entry point e with the key as entered:
\* load (wash-sale pass, Trades), strategy resolution, generate_matches.
RunPipeline(e, key, strategy) ==
    /\ entry' = e
    /\ first_matches' = matches
    /\ i' = Len(records) + 1
    /\ UNCHANGED <<records, score, adjusts>>
    /\ IF LoadFails(e, records)
       THEN /\ pc' = "error"
            /\ UNCHANGED <<ticker_buys, wash_sales, orders, selected, matches, run>>
       ELSE \E washed \in {apply_wash_sale(records)} :
            \E gen \in {generate_matches(BuildTrades(records, washed.wash_sales), strategy)} :
                /\ pc' = "done"
                /\ ticker_buys' = washed.ticker_buys
                /\ wash_sales' = washed.wash_sales
                /\ selected' = key
                /\ orders' = gen.orders
                /\ matches' = gen.result
                /\ run' = run + 1

\* orders.py main, up to the first summary: input() always yields a string.
Main ==
    /\ pc = "start"
    /\ \E key \in Keys \ {NoKey} : RunPipeline("orders", key, ResolveMain(key))

\* app.py process: the form field may be absent.
Process ==
    /\ pc = "start"
    /\ \E key \in Keys : RunPipeline("app", key, ResolveProcess(key))

\* The same input submitted once more to the entry point that has run.
MainAgain ==
    /\ pc = "done" /\ run = 1 /\ entry = "orders"
    /\ RunPipeline("orders", selected, ResolveMain(selected))

ProcessAgain ==
    /\ pc = "done" /\ run = 1 /\ entry = "app"
    /\ RunPipeline("app", selected, ResolveProcess(selected))

\* ------------------------------------- objective functions on a Match list
\* Trades to build Matches from: both prices on each side, a sell inside the
\* short-term range and one beyond it.
SampleOrders ==
    [k \in 1..6 |->
        Trade(<<Record(0, "buy", "X", 1, 2), Record(0, "buy", "X", 2, 2),
                Record(30, "sell", "X", 1, 2), Record(30, "sell", "X", 2, 2),
                Record(395, "sell", "X", 1, 2), Record(395, "sell", "X", 2, 2)>>[k])]

SampleMatches ==
    {Match(SampleOrders, b, s, q) : b \in {1, 2}, s \in {3, 4, 5, 6}, q \in {1, 2}}

InitObjective ==
    /\ records = <<>>
    /\ entry = Unset
    /\ pc = "score"
    /\ i = 1
    /\ ticker_buys = EmptyWash.ticker_buys
    /\ wash_sales = <<>>
    /\ orders = SampleOrders
    /\ selected = Unset
    /\ matches \in SeqsUpTo(SampleMatches, MaxMatches)
    /\ run = 0
    /\ first_matches = <<>>
    /\ score = 0
    /\ adjusts = 0

\* A call strategy_map[key](matches).
Evaluate ==
    /\ pc = "score"
    /\ \E key \in ValidKeys :
        /\ selected' = key
        /\ score' = strategy_map(key, matches)
    /\ pc' = "scored"
    /\ UNCHANGED <<records, entry, i, ticker_buys, wash_sales, orders, matches, run,
                   first_matches, adjusts>>

SpecObjective == InitObjective /\ [][Evaluate]_vars

\* main's loop, answered 'y': one call of adjust_match.
adjust_match ==
    /\ pc = "done" /\ entry = "orders"
    /\ adjusts < MaxAdjusts
    /\ \E choice_in \in Typed(0..2), new_choice_in \in Typed(0..2), new_qty_in \in Typed(-1..2) :
       \E res \in {AdjustResult(orders, matches, choice_in, new_choice_in, new_qty_in)} :
          /\ orders' = res.orders
          /\ matches' = res.matches
    /\ adjusts' = adjusts + 1
    /\ UNCHANGED <<records, entry, pc, i, ticker_buys, wash_sales, selected, run,
                   first_matches, score>>

NextAdjust == Main \/ adjust_match

Next == Main \/ Process

NextRerun == Main \/ Process \/ MainAgain \/ ProcessAgain

Spec == Init /\ [][Next]_vars

SpecQty == InitQty /\ [][Next]_vars

SpecRerun == InitRerun /\ [][NextRerun]_vars

SpecAdjust == InitAdjust /\ [][NextAdjust]_vars

SpecTerm == InitTerm /\ [][Process]_vars

SpecPair == InitPair /\ [][Process]_vars

SpecOrder == InitOrder /\ [][Process]_vars

\* ------------------------------------------------------------- properties
Finished == pc = "done"

C2_TradeUsedOnce ==
    Finished => \A j, k \in DOMAIN matches :
        j # k => matches[j].buy # matches[k].buy /\ matches[j].sell # matches[k].sell

\* A Buy of 2 matched with one of two Sells of 1: one Match, 1 left on the Buy
\* and the other Sell untouched.
C2_Witness ==
    /\ Finished
    /\ Len(matches) = 1
    /\ orders[matches[1].buy].original_qty = 2
    /\ orders[matches[1].buy].qty = 1
    /\ \E k \in DOMAIN orders :
          /\ k # matches[1].sell
          /\ orders[k].order_type = "sell"
          /\ orders[k].qty = 1
          /\ orders[k].original_qty = 1

\* The step of apply_wash_sale that handles a Sell record.
SellStep ==
    /\ pc = "wash"
    /\ i <= Len(records)
    /\ i' = i + 1
    /\ records[i].type = "sell"

SellPrice(r) == UnitPrice(r.total_amount, r.qty)
EligibleLots(lots, date) == {k \in DOMAIN lots : Eligible(lots[k], date)}
LossLots(lots, r) ==
    {k \in EligibleLots(lots, r.date) : lots[k].price - SellPrice(r) > 0}
Least(S) == CHOOSE k \in S : \A j \in S : k <= j

\* C3 as stated: when the first eligible lot of a Sell has a loss per unit
\* <= 0, that Sell adjusts no lot.
C3_StopsAtFirstEligible ==
    [][SellStep =>
        LET r == records[i]
            lots == ticker_buys[r.ticker]
            E == EligibleLots(lots, r.date)
        IN  (E # {} /\ lots[Least(E)].price - SellPrice(r) <= 0)
                => (ticker_buys' = ticker_buys /\ wash_sales' = wash_sales)]_vars

\* C3 amended: a Sell adjusts exactly the first lot, in append order, that is
\* eligible and has a loss per unit > 0, and no lot when there is none; an
\* eligible lot with a loss <= 0 does not end the scan.
C3_StopsAtFirstLoss ==
    [][SellStep =>
        LET r == records[i]
            lots == ticker_buys[r.ticker]
            L == LossLots(lots, r)
        IN  IF L = {}
            THEN ticker_buys' = ticker_buys /\ wash_sales' = wash_sales
            ELSE /\ ticker_buys' =
                      [ticker_buys EXCEPT ![r.ticker][Least(L)] =
                          [@ EXCEPT !.price = 2 * @ - SellPrice(r),
                                    !.orig_total = @ + (lots[Least(L)].price - SellPrice(r))
                                                        * lots[Least(L)].qty,
                                    !.adjusted = TRUE]]
                 /\ Len(wash_sales') = Len(wash_sales) + 1]_vars

\* The Sell just handled passed over an eligible lot without a loss, which is
\* still unadjusted, and adjusted a later lot.
C3_Witness ==
    /\ pc = "wash"
    /\ i = 4
    /\ records[3].type = "sell"
    /\ LET r == records[3]
           lots == ticker_buys[r.ticker]
       IN  /\ Len(lots) = 2
           /\ Eligible(lots[1], r.date)
           /\ lots[1].price <= SellPrice(r)
           /\ lots[2].adjusted
           /\ Len(wash_sales) = 1
           /\ wash_sales[1].sell_date = r.date
           /\ wash_sales[1].old_price > SellPrice(r)
           /\ wash_sales[1].new_price = lots[2].price

\* The index in records of the k-th Buy record of ticker t, whose lot is
\* ticker_buys[t][k].
BuyRecords(t) ==
    LET Is(k) == records[k].type = "buy" /\ records[k].ticker = t
    IN  SelectSeq([k \in 1..Len(records) |-> k], Is)

ChangedLots == {tk \in {<<t, k>> : t \in Tickers, k \in 1..MaxRecords} :
                  /\ tk[2] <= Len(ticker_buys[tk[1]])
                  /\ ticker_buys'[tk[1]][tk[2]] # ticker_buys[tk[1]][tk[2]]}

\* C4: a lot is adjusted only while it still has the price of its own record,
\* the adjustment raises the price, and every event is the adjustment of one
\* lot: so a lot is the subject of at most one event and its price rises at
\* most once.
C4_LotAdjustedOnce ==
    [][/\ \A tk \in ChangedLots :
            LET old == ticker_buys[tk[1]][tk[2]]
                new == ticker_buys'[tk[1]][tk[2]]
            IN  /\ old.price = NewLot(records[BuyRecords(tk[1])[tk[2]]]).price
                /\ new.price > old.price
       /\ Len(wash_sales') = Len(wash_sales) + Cardinality(ChangedLots)]_vars

\* A lot adjusted by the first of two later Sells that both fall within 30 days
\* of it at a price below its original price.
C4_Witness ==
    /\ pc = "wash"
    /\ i = 4
    /\ records[1].type = "buy"
    /\ records[2].type = "sell" /\ records[2].ticker = records[1].ticker
    /\ records[3].type = "sell" /\ records[3].ticker = records[1].ticker
    /\ \A k \in {2, 3} :
          /\ 0 < records[k].date - records[1].date
          /\ records[k].date - records[1].date <= WashWindowDays
          /\ SellPrice(records[k]) < NewLot(records[1]).price
    /\ Len(wash_sales) = 1
    /\ ticker_buys[records[1].ticker][1].adjusted

Loaded == pc = "loaded"

\* The position in its ticker's lot list of the lot made from Buy record k.
LotIndex(k) ==
    Cardinality({j \in 1..k : records[j].type = "buy" /\ records[j].ticker = records[k].ticker})
OwnLot(k) == ticker_buys[records[k].ticker][LotIndex(k)]

\* C5: after loading, every Buy Trade has the final price of the lot made from
\* its own record (the adjusted price if that lot was adjusted, total / qty
\* otherwise), and an unadjusted one keeps its total_amount.
C5_TradePriceIsOwnLotPrice ==
    Loaded => \A k \in DOMAIN orders :
        orders[k].order_type = "buy" =>
            /\ orders[k].price = OwnLot(k).price
            /\ ~OwnLot(k).adjusted =>
                  /\ orders[k].price = UnitPrice(records[k].total_amount, records[k].qty)
                  /\ orders[k].total_amount = records[k].total_amount

\* C6: a record with qty = 0 never makes the load fail, and its Trade has
\* price 0.
C6_ZeroQtyPriceZero ==
    /\ pc # "error"
    /\ Loaded => \A k \in DOMAIN orders : records[k].qty = 0 => orders[k].price = 0

InvalidKeys == Keys \ ValidKeys

\* C7: a run given an absent or unknown strategy key completes, and its Match
\* list is the one generate_matches returns for the same records under
\* objective "1".
C7_UnknownKeyIsKey1 ==
    selected \in InvalidKeys =>
        /\ Finished
        /\ matches = generate_matches(load_orders(records), "1").result

\* An unknown key on an input where objectives 1 and 2 choose differently.
C7_Witness ==
    /\ Finished
    /\ selected \in InvalidKeys
    /\ matches # <<>>
    /\ generate_matches(load_orders(records), "2").result # matches

C9_BuyNotAfterSell ==
    Finished => \A j \in DOMAIN matches :
        LET buy == orders[matches[j].buy]
            sell == orders[matches[j].sell]
        IN  /\ buy.order_type = "buy"
            /\ sell.order_type = "sell"
            /\ buy.ticker = sell.ticker
            /\ buy.date <= sell.date

\* A Match of a Buy dated before its Sell, next to a Buy of the same ticker
\* dated after that Sell that stays unmatched.
C9_Witness ==
    /\ Finished
    /\ \E j \in DOMAIN matches : \E k \in DOMAIN orders :
          /\ orders[matches[j].buy].date < orders[matches[j].sell].date
          /\ orders[k].order_type = "buy"
          /\ orders[k].ticker = orders[matches[j].sell].ticker
          /\ orders[k].date > orders[matches[j].sell].date
          /\ orders[k].qty = orders[k].original_qty

\* The candidates generate_matches builds from the Trades as loaded.
Candidates == AllMatches(load_orders(records))

WashSaleImplies(m) ==
    m.is_wash_sale =>
        /\ 0 < orders[m.sell].date - orders[m.buy].date
        /\ orders[m.sell].date - orders[m.buy].date <= WashWindowDays
        /\ orders[m.sell].price < orders[m.buy].price

\* C10: a Match, candidate or accepted, is flagged as a wash sale only if its
\* Sell is 1 to 30 days after its Buy and below the Buy's unit price, with the
\* prices the Trades carry after the wash-sale pass.
C10_WashSaleFlagSound ==
    Finished =>
        /\ \A j \in DOMAIN matches : WashSaleImplies(matches[j])
        /\ \A cands \in {Candidates} : \A j \in DOMAIN cands : WashSaleImplies(cands[j])

\* A flagged Match whose Buy carries an adjusted price.
C10_Witness ==
    /\ Finished
    /\ \E j \in DOMAIN matches :
          /\ matches[j].is_wash_sale
          /\ orders[matches[j].buy].price
                # UnitPrice(records[matches[j].buy].total_amount, records[matches[j].buy].qty)

\* The profits of a Match list added up from its head.
RECURSIVE TotalProfit(_)
TotalProfit(ms) == IF ms = <<>> THEN 0 ELSE Head(ms).profit + TotalProfit(Tail(ms))

Scored(key) == pc = "scored" /\ selected = key

\* C11: for every list of Matches, the empty list and lists with a positive
\* total included, objective "7" returns a value >= 0: 0 when the summed
\* profit is >= 0 and the magnitude of the summed profit when it is negative.
C11_MinimalLossIsLossMagnitude ==
    Scored("7") =>
        /\ score >= 0
        /\ TotalProfit(matches) >= 0 => score = 0
        /\ TotalProfit(matches) < 0 => score = -TotalProfit(matches)

\* Objective "7" has been applied to a list with a gain and a larger loss in it.
C11_Witness ==
    /\ Scored("7")
    /\ \E j, k \in 1..Len(matches) : matches[j].profit > 0 /\ matches[k].profit < 0
    /\ TotalProfit(matches) < 0
    /\ score > 0

\* The strategy the run that has finished resolved its key to.
Strategy == IF entry = "orders" THEN ResolveMain(selected) ELSE ResolveProcess(selected)

ScoreAlone(m) == strategy_map(Strategy, <<m>>)

\* Candidate-generation order: sells by ascending date in the outer loop, buys
\* by ascending date in the inner one, input order among equal dates.
TradeBefore(a, b) ==
    \/ orders[a].date < orders[b].date
    \/ orders[a].date = orders[b].date /\ a < b

GeneratedBefore(m, n) ==
    \/ TradeBefore(m.sell, n.sell)
    \/ m.sell = n.sell /\ TradeBefore(m.buy, n.buy)

\* C12: the returned Matches are in non-increasing order of the objective
\* applied to each Match alone, and accepted Matches of equal score appear in
\* candidate-generation order.
C12_ResultOrderedByScore ==
    Finished =>
        \A j, k \in 1..Len(matches) :
            j < k =>
                /\ ScoreAlone(matches[j]) >= ScoreAlone(matches[k])
                /\ ScoreAlone(matches[j]) = ScoreAlone(matches[k])
                        => GeneratedBefore(matches[j], matches[k])

\* Two accepted Matches of different score, the first one a Match of the Sell
\* that comes later in the input and in date.
C12_Witness ==
    /\ Finished
    /\ Len(matches) = 2
    /\ ScoreAlone(matches[1]) > ScoreAlone(matches[2])
    /\ GeneratedBefore(matches[2], matches[1])

\* C13: every accepted Match has qty > 0, its qty is the smaller of the two
\* Trades' remaining quantities when it is selected, which is the smaller of
\* their original quantities and the candidate's qty, and after acceptance
\* one of the two Trades has remaining quantity 0.
C13_MatchQtyIsMinOfOriginals ==
    Finished =>
        \A cands \in {Candidates} :
        \A j \in 1..Len(matches) :
            LET m == matches[j]
                buy == orders[m.buy]
                sell == orders[m.sell]
            IN  /\ m.qty > 0
                /\ m.qty = Min(buy.qty + m.qty, sell.qty + m.qty)
                /\ m.qty = Min(buy.original_qty, sell.original_qty)
                /\ \E c \in 1..Len(cands) : cands[c] = m
                /\ buy.qty = 0 \/ sell.qty = 0

\* A Buy of 2 matched against a Sell of 1: the Match has qty 1, the Sell is
\* used up and the Buy keeps 1, next to a Trade of quantity 0 that no Match uses.
C13_Witness ==
    /\ Finished
    /\ \E j \in 1..Len(matches) :
        /\ matches[j].qty = 1
        /\ orders[matches[j].buy].original_qty = 2
        /\ orders[matches[j].buy].qty = 1
        /\ orders[matches[j].sell].qty = 0
    /\ \E k \in 1..Len(orders) : orders[k].original_qty = 0

\* The events the step appends to wash_sales.
NewEvents == {wash_sales'[n] : n \in (Len(wash_sales) + 1)..Len(wash_sales')}

\* C14: every WashSaleAdjustment is emitted by a Sell and refers to a Buy
\* record that precedes the Sell in input order, has the Sell's ticker and a
\* date 1 to 30 days before the Sell's, with old_price > the Sell's price and
\* new_price - old_price = old_price - sell price = adjustment_per_unit; a Buy
\* that follows the Sell in the input, or is dated on or after the Sell's date,
\* is never adjusted by that Sell.
C14_AdjustmentRefersToEarlierBuy ==
    [][/\ SubSeq(wash_sales', 1, Len(wash_sales)) = wash_sales
       /\ (NewEvents # {} \/ ChangedLots # {}) => SellStep
       /\ \A tk \in ChangedLots :
            LET r == records[i]
                b == BuyRecords(tk[1])[tk[2]]
            IN  /\ b < i
                /\ records[b].ticker = r.ticker
                /\ records[b].date < r.date
       /\ \A e \in NewEvents :
            LET r == records[i]
            IN  /\ e.ticker = r.ticker
                /\ e.sell_date = r.date
                /\ 0 < e.sell_date - e.buy_date
                /\ e.sell_date - e.buy_date <= WashWindowDays
                /\ e.old_price > SellPrice(r)
                /\ e.new_price - e.old_price = e.old_price - SellPrice(r)
                /\ e.adjustment_per_unit = e.old_price - SellPrice(r)
                /\ \E tk \in ChangedLots :
                      LET b == BuyRecords(tk[1])[tk[2]]
                      IN  /\ records[b].date = e.buy_date
                          /\ NewLot(records[b]).price = e.old_price
                          /\ ticker_buys'[tk[1]][tk[2]].price = e.new_price]_vars

\* A Sell has adjusted the Buy before it; a Buy of the same ticker that follows
\* it in the input, dated within 30 days before it at a higher price, is left
\* alone.
C14_Witness ==
    /\ pc = "wash"
    /\ i = 4
    /\ records[1].type = "buy" /\ records[2].type = "sell" /\ records[3].type = "buy"
    /\ records[1].ticker = records[2].ticker /\ records[3].ticker = records[2].ticker
    /\ Len(wash_sales) = 1
    /\ wash_sales[1].sell_date = records[2].date
    /\ wash_sales[1].buy_date = records[1].date
    /\ records[3].date = records[1].date
    /\ NewLot(records[3]).price > SellPrice(records[2])
    /\ ~ticker_buys[records[3].ticker][2].adjusted

\* C17: a Sell record causes at most one WashSaleAdjustment: once a lot has
\* been adjusted for it, no further lot is adjusted for the same Sell.
C17_OneAdjustmentPerSell ==
    [][SellStep =>
        /\ Len(wash_sales') <= Len(wash_sales) + 1
        /\ Cardinality(ChangedLots) <= 1
        /\ \A tk \in ChangedLots :
              \A k \in (tk[2] + 1)..Len(ticker_buys[tk[1]]) :
                  ticker_buys'[tk[1]][k] = ticker_buys[tk[1]][k]]_vars

\* A Sell with two lots that are both eligible and both priced above it has
\* adjusted the first and left the second as it was.
C17_Witness ==
    /\ pc = "wash"
    /\ i = 4
    /\ records[3].type = "sell"
    /\ LET r == records[3]
           lots == ticker_buys[r.ticker]
       IN  /\ Len(lots) = 2
           /\ Len(wash_sales) = 1
           /\ lots[1].adjusted
           /\ Eligible(lots[2], r.date)
           /\ lots[2].price > SellPrice(r)

\* C15: after a matching run followed by any sequence of adjust_match calls
\* (any match index, any replacement buy, any entered quantity, calls aborted
\* at either prompt, the same index adjusted again), every Trade still has
\* 0 <= remaining quantity <= original quantity.
C15_QtyWithinOriginalAfterAdjust ==
    (Finished /\ adjusts > 0) =>
        \A k \in 1..Len(orders) :
            0 <= orders[k].qty /\ orders[k].qty <= orders[k].original_qty

\* A candidate whose term is not the one the term objective in use filters on.
OffTerm(m) ==
    \/ Strategy \in {"3", "5"} /\ is_long_term(m)
    \/ Strategy \in {"4", "6"} /\ is_short_term(m)

SharesTrade(m, n) == m.buy = n.buy \/ m.sell = n.sell

\* C16: under objectives "3" to "6" a candidate of the other term scores
\* exactly 0 and is not excluded: it is accepted unless a Match that scores at
\* least 0, so is ranked no lower, has taken one of its Trades; no candidate of
\* negative score displaces it.
C16_OffTermScoresZeroAndStays ==
    Finished =>
        \A cands \in {Candidates} :
        \A c \in 1..Len(cands) :
            OffTerm(cands[c]) =>
                /\ ScoreAlone(cands[c]) = 0
                /\ \E j \in 1..Len(matches) :
                      /\ SharesTrade(matches[j], cands[c])
                      /\ ScoreAlone(matches[j]) >= 0

\* Under objective "3" a long-term candidate with a loss is accepted, and a
\* short-term candidate with a loss that shares its Sell is not.
C16_Witness ==
    /\ Finished
    /\ Strategy = "3"
    /\ \E j \in 1..Len(matches) :
          /\ is_long_term(matches[j])
          /\ matches[j].profit < 0
          /\ \E c \in 1..Len(Candidates) :
                /\ is_short_term(Candidates[c])
                /\ Candidates[c].profit < 0
                /\ Candidates[c].sell = matches[j].sell
                /\ Candidates[c].buy # matches[j].buy

\* Trade k is the Buy or the Sell of an accepted Match.
InSomeMatch(k) == \E j \in 1..Len(matches) : matches[j].buy = k \/ matches[j].sell = k

\* A Buy and a Sell of one ticker, the Buy dated no later than the Sell, both
\* with an original quantity > 0.
Pairable(b, s) ==
    /\ orders[b].order_type = "buy"
    /\ orders[s].order_type = "sell"
    /\ orders[b].ticker = orders[s].ticker
    /\ orders[b].date <= orders[s].date
    /\ orders[b].original_qty > 0
    /\ orders[s].original_qty > 0

RECURSIVE MatchedQty(_, _)
MatchedQty(ms, k) ==
    IF ms = <<>> THEN 0
    ELSE (IF Head(ms).buy = k \/ Head(ms).sell = k THEN Head(ms).qty ELSE 0)
         + MatchedQty(Tail(ms), k)

\* C19: after generate_matches, every Trade has original quantity - remaining
\* quantity = the sum of qty over the returned Matches that refer to it (0 when
\* none does), and its date, ticker, side, unit price, total amount and
\* original quantity are as load_orders left them.
C19_QtyConservedFieldsKept ==
    Finished =>
        \A loaded \in {load_orders(records)} :
        \A k \in 1..Len(orders) :
            /\ orders[k].original_qty - orders[k].qty = MatchedQty(matches, k)
            /\ orders[k] = [loaded[k] EXCEPT !.qty = orders[k].qty]

\* A Trade of 2 with 1 taken by a Match at a unit price of 2, and a Trade with
\* a positive quantity that no Match refers to.
C19_Witness ==
    /\ Finished
    /\ \E k \in 1..Len(orders) :
          /\ orders[k].original_qty = 2
          /\ orders[k].qty = 1
          /\ orders[k].price = 2
          /\ MatchedQty(matches, k) = 1
    /\ \E k \in 1..Len(orders) :
          /\ orders[k].original_qty > 0
          /\ MatchedQty(matches, k) = 0

====
